---- MODULE Spec2Model ----
(***************************************************************************)
(* A model of scinotation-rs (src/src/lib.rs): the value type              *)
(* SciValue<B,E> = base * 10^e_exp and its operations match_exponents,     *)
(* add, sub, div, reduce, pow, eq, cmp and partial_cmp.                    *)
(*                                                                         *)
(* The type is generic in the base type B and the exponent type E.  The    *)
(* model instantiates B at the 8-bit integers (i8 when signedB, u8         *)
(* otherwise) and E at i8, the narrowest types the bounds B: Int and       *)
(* E: SignedInt admit, so that every overflow is a small case.  Integer    *)
(* overflow of +, - and * depends on the build: with overflow checks the   *)
(* operation panics, without them it wraps modulo 2^width.  The variable   *)
(* `checked` is that choice; it is made once, in Init.  Division and       *)
(* remainder by zero, and MIN / -1, panic in every build.                  *)
(*                                                                         *)
(* One behaviour of the model is one call (for reduce: x.reduce() and then *)
(* .reduce() on its result).  Straight-line operations are one action;     *)
(* the loops of div, reduce and pow take one action per iteration.         *)
(***************************************************************************)
EXTENDS Integers, Sequences, FiniteSets, TLC

VARIABLES
  op,        \* the operation this behaviour calls
  signedB,   \* B is i8 (TRUE) or u8 (FALSE)
  checked,   \* the build panics on arithmetic overflow (TRUE) or wraps (FALSE)
  lhs,       \* first argument / receiver (self)
  rhs,       \* second argument
  n,         \* pow's argument exp
  pc,        \* "idle", "loop", "done" or "panic"
  self,      \* div: the `mut self` the scale-up loop works on
  new_base,  \* reduce: local new_base
  new_exp,   \* reduce: local new_exp
  newbase,   \* pow: local newbase
  i,         \* pow: the next value range(1, exp) yields
  result,    \* the value returned (<<>> until then)
  pass,      \* reduce: 1 in x.reduce(), 2 in x.reduce().reduce()
  first      \* reduce: the result of the first call, once pass = 2

vars == <<op, signedB, checked, lhs, rhs, n, pc, self, new_base, new_exp,
          newbase, i, result, pass, first>>

(***************************************************************************)
(* Bounds of the model.                                                    *)
(***************************************************************************)
\* exponents of the arguments are drawn from -MaxExp .. MaxExp
MaxExp == 2
\* bases of the arguments of binary operations and of pow are drawn from
\* -MaxInBase .. MaxInBase (as far as B has them) and the two extremes of B
MaxInBase == 13
\* pow's argument is drawn from -1 .. MaxPow
MaxPow == 4

(***************************************************************************)
(* The integer types.                                                      *)
(***************************************************************************)
BaseBits == 8
ExpBits == 8

RECURSIVE Pow2(_)
Pow2(k) == IF k = 0 THEN 1 ELSE 2 * Pow2(k - 1)

MIN_BASE == IF signedB THEN -Pow2(BaseBits - 1) ELSE 0
MAX_BASE == IF signedB THEN Pow2(BaseBits - 1) - 1 ELSE Pow2(BaseBits) - 1
MIN_EXP == -Pow2(ExpBits - 1)
MAX_EXP == Pow2(ExpBits - 1) - 1

InBase(x) == MIN_BASE <= x /\ x <= MAX_BASE
InExp(x) == MIN_EXP <= x /\ x <= MAX_EXP

\* two's complement wrap-around of the exact result x
WrapBase(x) ==
  LET m == x % Pow2(BaseBits)
  IN  IF signedB /\ m >= Pow2(BaseBits - 1) THEN m - Pow2(BaseBits) ELSE m
WrapExp(x) ==
  LET m == x % Pow2(ExpBits)
  IN  IF m >= Pow2(ExpBits - 1) THEN m - Pow2(ExpBits) ELSE m

\* +, - and * on B and on E, given the exact result x: the value the
\* operation yields, and whether it panics instead
BaseArith(x) == [val |-> WrapBase(x), panics |-> checked /\ ~InBase(x)]
ExpArith(x) == [val |-> WrapExp(x), panics |-> checked /\ ~InExp(x)]

Abs(x) == IF x < 0 THEN -x ELSE x
\* Rust's / and % truncate toward zero
DivT(a, b) ==
  IF (a >= 0) = (b > 0) THEN Abs(a) \div Abs(b) ELSE -(Abs(a) \div Abs(b))
RemT(a, b) == a - b * DivT(a, b)
\* a / b and a % b panic when b = 0 and when a = MIN, b = -1
DivPanics(a, b) == b = 0 \/ (signedB /\ a = MIN_BASE /\ b = -1)

\* 10is.pow(k), in isize; the model's exponents keep k below 19, where
\* 10^k leaves isize
RECURSIVE Pow10(_)
Pow10(k) == IF k = 0 THEN 1 ELSE 10 * Pow10(k - 1)

\* Option<T>: <<>> is None, <<v>> is Some(v)
None == <<>>
Some(v) == <<v>>
\* <B as FromPrimitive>::from_int
from_int(v) == IF InBase(v) THEN Some(v) ELSE None
\* E::to_uint
to_uint(x) == IF x >= 0 THEN Some(x) ELSE None

wrap_with_exponent(val, exp) == [base |-> val, e_exp |-> exp]
wrap(val) == [base |-> val, e_exp |-> 0]

\* a call's outcome: a returned value or a panic
Ok(v) == [st |-> "done", val |-> v]
Panic == [st |-> "panic", val |-> <<>>]

(***************************************************************************)
(* match_exponents_rhs_greater, match_exponents                            *)
(***************************************************************************)
match_exponents_rhs_greater(l, r) ==
  LET extra_exp == ExpArith(r.e_exp - l.e_exp)
      usz == to_uint(extra_exp.val)
      ten_to_pow == IF usz = None THEN None ELSE from_int(Pow10(usz[1]))
  IN  IF extra_exp.panics \/ ten_to_pow = None
      THEN Panic
      ELSE LET rhs_new_base == BaseArith(r.base * ten_to_pow[1])
               rhs_new_exp == ExpArith(r.e_exp - extra_exp.val)
           IN  IF rhs_new_base.panics \/ rhs_new_exp.panics
               THEN Panic
               ELSE Ok(<<l, [base |-> rhs_new_base.val,
                             e_exp |-> rhs_new_exp.val]>>)

\* mutant: the lhs.e_exp > rhs.e_exp branch forgets to swap the pair back
match_exponents_noswap(l, r) ==
  IF l.e_exp = r.e_exp
  THEN Ok(<<l, r>>)
  ELSE IF l.e_exp > r.e_exp
       THEN match_exponents_rhs_greater(r, l)
       ELSE match_exponents_rhs_greater(l, r)

match_exponents(l, r) ==
  IF l.e_exp = r.e_exp
  THEN Ok(<<l, r>>)
  ELSE IF l.e_exp > r.e_exp
       THEN LET m == match_exponents_rhs_greater(r, l)
            IN  IF m.st = "panic" THEN Panic ELSE Ok(<<m.val[2], m.val[1]>>)
       ELSE match_exponents_rhs_greater(l, r)

(***************************************************************************)
(* Add::add, Sub::sub                                                      *)
(***************************************************************************)
add(l, unmatched_rhs) ==
  LET m == match_exponents(l, unmatched_rhs)
  IN  IF m.st = "panic"
      THEN Panic
      ELSE LET s == BaseArith(m.val[1].base + m.val[2].base)
           IN  IF s.panics THEN Panic
               ELSE Ok([base |-> s.val, e_exp |-> m.val[1].e_exp])

\* mutant: the operands of the subtraction are exchanged
sub_reversed(l, unmatched_rhs) ==
  LET m == match_exponents(l, unmatched_rhs)
  IN  IF m.st = "panic"
      THEN Panic
      ELSE LET s == BaseArith(m.val[2].base - m.val[1].base)
           IN  IF s.panics THEN Panic
               ELSE Ok([base |-> s.val, e_exp |-> m.val[1].e_exp])

sub(l, unmatched_rhs) ==
  LET m == match_exponents(l, unmatched_rhs)
  IN  IF m.st = "panic"
      THEN Panic
      ELSE LET s == BaseArith(m.val[1].base - m.val[2].base)
           IN  IF s.panics THEN Panic
               ELSE Ok([base |-> s.val, e_exp |-> m.val[1].e_exp])

(***************************************************************************)
(* PartialEq::eq, Ord::cmp, PartialOrd::partial_cmp                        *)
(***************************************************************************)
\* the integer types' own cmp
int_cmp(a, b) == IF a < b THEN "Less" ELSE IF a = b THEN "Equal" ELSE "Greater"

eq(a, b) == a.base = b.base /\ a.e_exp = b.e_exp

\* mutant: the base is compared first
cmp_base_first(a, b) ==
  IF int_cmp(a.base, b.base) = "Equal"
  THEN int_cmp(a.e_exp, b.e_exp)
  ELSE int_cmp(a.base, b.base)

cmp(a, b) ==
  IF int_cmp(a.e_exp, b.e_exp) = "Equal"
  THEN int_cmp(a.base, b.base)
  ELSE int_cmp(a.e_exp, b.e_exp)

partial_cmp(a, b) ==
  LET c == Some(int_cmp(a.e_exp, b.e_exp))
  IN  IF c = Some("Equal") THEN Some(int_cmp(a.base, b.base)) ELSE c

(***************************************************************************)
(* The arguments.                                                          *)
(***************************************************************************)
InExps == (-MaxExp) .. MaxExp
BaseRange == MIN_BASE .. MAX_BASE
BinBases == {b \in (-MaxInBase) .. MaxInBase : InBase(b)} \cup {MIN_BASE, MAX_BASE}
Values(bases) == {wrap_with_exponent(b, e) : b \in bases, e \in InExps}
Zero == wrap(0)

InitCall(ops, lhsValues, rhsValues, ns) ==
  /\ op \in ops
  /\ signedB \in BOOLEAN
  /\ checked \in BOOLEAN
  /\ lhs \in lhsValues
  /\ rhs \in rhsValues
  /\ n \in ns
  /\ pc = "idle"
  /\ self = lhs
  /\ new_base = 0
  /\ new_exp = 0
  /\ newbase = 0
  /\ i = 0
  /\ result = <<>>
  /\ pass = 1
  /\ first = <<>>

\* what a straight-line call leaves behind
Return(out) ==
  /\ pc' = out.st
  /\ result' = out.val
  /\ UNCHANGED <<op, signedB, checked, lhs, rhs, n, self, new_base, new_exp,
                 newbase, i, pass, first>>

call_match_exponents ==
  /\ op = "match_exponents" /\ pc = "idle"
  /\ Return(match_exponents(lhs, rhs))

call_add ==
  /\ op = "add" /\ pc = "idle"
  /\ Return(add(lhs, rhs))

call_sub ==
  /\ op = "sub" /\ pc = "idle"
  /\ Return(sub(lhs, rhs))

call_cmp ==
  /\ op = "cmp" /\ pc = "idle"
  /\ Return(Ok([eq |-> eq(lhs, rhs), cmp |-> cmp(lhs, rhs),
                partial_cmp |-> partial_cmp(lhs, rhs)]))

(***************************************************************************)
(* Div::div: the scale-up loop and the final division                      *)
(***************************************************************************)
\* mutant: the overflow guard admits a dividend equal to MAX / 10
div_loop_cond_le(s, r) ==
  /\ RemT(s.base, r.base) # 0
  /\ s.base <= DivT(MAX_BASE, 10)

\* the while condition; evaluated only where s.base % r.base does not panic
div_loop_cond(s, r) ==
  /\ RemT(s.base, r.base) # 0
  /\ s.base < DivT(MAX_BASE, 10)

\* self.base % rhs.base panics: rhs.base is 0, or MIN % -1
div_cond_panics ==
  /\ op = "div" /\ pc \in {"idle", "loop"}
  /\ DivPanics(self.base, rhs.base)
  /\ pc' = "panic"
  /\ UNCHANGED <<op, signedB, checked, lhs, rhs, n, self, new_base, new_exp,
                 newbase, i, result, pass, first>>

\* one iteration of the loop body
div_step ==
  /\ op = "div" /\ pc \in {"idle", "loop"}
  /\ ~DivPanics(self.base, rhs.base)
  /\ div_loop_cond(self, rhs)
  /\ LET b == BaseArith(self.base * 10)
         e == ExpArith(self.e_exp - 1)
     IN  IF b.panics
         THEN pc' = "panic" /\ self' = self
         ELSE IF e.panics
              THEN pc' = "panic" /\ self' = [self EXCEPT !.base = b.val]
              ELSE pc' = "loop" /\ self' = [base |-> b.val, e_exp |-> e.val]
  /\ UNCHANGED <<op, signedB, checked, lhs, rhs, n, new_base, new_exp,
                 newbase, i, result, pass, first>>

\* the loop is left: self.base / rhs.base at self.e_exp - rhs.e_exp
div_return ==
  /\ op = "div" /\ pc \in {"idle", "loop"}
  /\ ~DivPanics(self.base, rhs.base)
  /\ ~div_loop_cond(self, rhs)
  /\ LET e == ExpArith(self.e_exp - rhs.e_exp)
     IN  IF e.panics
         THEN pc' = "panic" /\ result' = result
         ELSE /\ pc' = "done"
              /\ result' = [base |-> DivT(self.base, rhs.base), e_exp |-> e.val]
  /\ UNCHANGED <<op, signedB, checked, lhs, rhs, n, self, new_base, new_exp,
                 newbase, i, pass, first>>

(***************************************************************************)
(* reduce                                                                  *)
(***************************************************************************)
reduce_enter ==
  /\ op = "reduce" /\ pc = "idle"
  /\ new_base' = lhs.base
  /\ new_exp' = lhs.e_exp
  /\ pc' = "loop"
  /\ UNCHANGED <<op, signedB, checked, lhs, rhs, n, self, newbase, i, result,
                 pass, first>>

\* mutant: the loop body divides the base and forgets the exponent
reduce_step_keeps_exp ==
  /\ op = "reduce" /\ pc = "loop"
  /\ RemT(new_base, 10) = 0
  /\ new_base' = DivT(new_base, 10)
  /\ pc' = "loop"
  /\ UNCHANGED <<op, signedB, checked, lhs, rhs, n, self, new_exp, newbase, i,
                 result, pass, first>>

reduce_step ==
  /\ op = "reduce" /\ pc = "loop"
  /\ RemT(new_base, 10) = 0
  /\ new_base' = DivT(new_base, 10)
  /\ LET e == ExpArith(new_exp + 1)
     IN  IF e.panics
         THEN pc' = "panic" /\ new_exp' = new_exp
         ELSE pc' = "loop" /\ new_exp' = e.val
  /\ UNCHANGED <<op, signedB, checked, lhs, rhs, n, self, newbase, i, result,
                 pass, first>>

reduce_return ==
  /\ op = "reduce" /\ pc = "loop"
  /\ RemT(new_base, 10) # 0
  /\ result' = wrap_with_exponent(new_base, new_exp)
  /\ pc' = "done"
  /\ UNCHANGED <<op, signedB, checked, lhs, rhs, n, self, new_base, new_exp,
                 newbase, i, pass, first>>

\* the caller's second call, x.reduce().reduce(): the receiver is the first
\* call's result
reduce_again ==
  /\ op = "reduce" /\ pc = "done" /\ pass = 1
  /\ first' = result
  /\ lhs' = result
  /\ pass' = 2
  /\ pc' = "idle"
  /\ result' = <<>>
  /\ UNCHANGED <<op, signedB, checked, rhs, n, self, new_base, new_exp,
                 newbase, i>>

(***************************************************************************)
(* pow                                                                     *)
(***************************************************************************)
\* mutant: the range starts at zero
pow_enter_from_zero ==
  /\ op = "pow" /\ pc = "idle"
  /\ newbase' = lhs.base
  /\ i' = 0
  /\ pc' = "loop"
  /\ UNCHANGED <<op, signedB, checked, lhs, rhs, n, self, new_base, new_exp,
                 result, pass, first>>

\* newbase = self.base.clone(); range(1, exp) is set up
pow_enter ==
  /\ op = "pow" /\ pc = "idle"
  /\ newbase' = lhs.base
  /\ i' = 1
  /\ pc' = "loop"
  /\ UNCHANGED <<op, signedB, checked, lhs, rhs, n, self, new_base, new_exp,
                 result, pass, first>>

\* the range yields i: one multiplication
pow_step ==
  /\ op = "pow" /\ pc = "loop"
  /\ i < n
  /\ LET p == BaseArith(newbase * lhs.base)
     IN  IF p.panics
         THEN pc' = "panic" /\ newbase' = newbase /\ i' = i
         ELSE pc' = "loop" /\ newbase' = p.val /\ i' = i + 1
  /\ UNCHANGED <<op, signedB, checked, lhs, rhs, n, self, new_base, new_exp,
                 result, pass, first>>

\* the range is exhausted
pow_return ==
  /\ op = "pow" /\ pc = "loop"
  /\ i >= n
  /\ LET e == ExpArith(lhs.e_exp * n)
     IN  IF e.panics
         THEN pc' = "panic" /\ result' = result
         ELSE pc' = "done" /\ result' = [base |-> newbase, e_exp |-> e.val]
  /\ UNCHANGED <<op, signedB, checked, lhs, rhs, n, self, new_base, new_exp,
                 newbase, i, pass, first>>

(***************************************************************************)
(* Specifications: one per group of operations, and Spec for all of them.  *)
(***************************************************************************)
InitAlign == InitCall({"match_exponents", "add", "sub"}, Values(BinBases),
                      Values(BinBases), {0})
NextAlign == call_match_exponents \/ call_add \/ call_sub
SpecAlign == InitAlign /\ [][NextAlign]_vars

InitCmp == InitCall({"cmp"}, Values(BinBases), Values(BinBases), {0})
NextCmp == call_cmp
SpecCmp == InitCmp /\ [][NextCmp]_vars


InitDiv == InitCall({"div"}, Values(BinBases), Values(BinBases), {0})
NextDiv == div_cond_panics \/ div_step \/ div_return
SpecDiv == InitDiv /\ [][NextDiv]_vars

\* reduce takes every base of B; the program runs on, so its next step is
\* always taken
InitReduce == InitCall({"reduce"}, Values(BaseRange), {Zero}, {0})
NextReduce == reduce_enter \/ reduce_step \/ reduce_return \/ reduce_again
SpecReduce == InitReduce /\ [][NextReduce]_vars /\ WF_vars(NextReduce)

InitPow == InitCall({"pow"}, Values(BinBases), {Zero}, (-1) .. MaxPow)
NextPow == pow_enter \/ pow_step \/ pow_return
SpecPow == InitPow /\ [][NextPow]_vars

Init == InitAlign \/ InitCmp \/ InitDiv \/ InitReduce \/ InitPow
Next == NextAlign \/ NextCmp \/ NextDiv \/ NextReduce \/ NextPow
Spec == Init /\ [][Next]_vars


(***************************************************************************)
(* The mathematics the properties are stated in.                           *)
(***************************************************************************)
MinOf(a, b) == IF a <= b THEN a ELSE b
\* the operand with the larger exponent
Coarser(l, r) == IF l.e_exp > r.e_exp THEN l ELSE r
ExpDiff(l, r) == Abs(l.e_exp - r.e_exp)
\* v.base * 10^v.e_exp in units of 10^m, for m <= v.e_exp
Units(v, m) == v.base * Pow10(v.e_exp - m)
\* aligning l and r overflows nothing in B: neither 10^difference nor the
\* coarser operand's base times it
AlignFits(l, r) ==
  /\ InBase(Pow10(ExpDiff(l, r)))
  /\ InBase(Coarser(l, r).base * Pow10(ExpDiff(l, r)))

\* C1: when nothing overflows B, match_exponents returns the pair in
\* argument order, both at the smaller exponent; the operand with the
\* smaller exponent is unchanged, the other's base is multiplied by
\* 10^|e1-e2|, and each output has the magnitude of its input; with equal
\* exponents both are unchanged.
C1_MatchExponents ==
  (op = "match_exponents" /\ pc # "idle" /\ AlignFits(lhs, rhs)) =>
    /\ pc = "done"
    /\ LET m == MinOf(lhs.e_exp, rhs.e_exp)
           d == ExpDiff(lhs, rhs)
       IN  /\ result[1].e_exp = m /\ result[2].e_exp = m
           /\ lhs.e_exp <= rhs.e_exp => result[1] = lhs
           /\ rhs.e_exp <= lhs.e_exp => result[2] = rhs
           /\ lhs.e_exp > rhs.e_exp => result[1].base = lhs.base * Pow10(d)
           /\ rhs.e_exp > lhs.e_exp => result[2].base = rhs.base * Pow10(d)
           /\ Units(result[1], m) = Units(lhs, m)
           /\ Units(result[2], m) = Units(rhs, m)

\* the first argument is the coarser one and is scaled by 100
C1_Witness ==
  /\ op = "match_exponents" /\ pc = "done"
  /\ lhs = wrap_with_exponent(1, 2) /\ rhs = wrap_with_exponent(5, 0)
  /\ result = <<wrap_with_exponent(100, 0), rhs>>

\* the exact sum or difference of the operands in units of 10^m
ExactSum(l, r, m) ==
  IF op = "sub" THEN Units(l, m) - Units(r, m) ELSE Units(l, m) + Units(r, m)

\* C2: when nothing overflows B (in the alignment or in the addition or
\* subtraction), lhs + rhs and lhs - rhs return the exact sum or difference
\* (lhs minus rhs) of the aligned bases at the smaller exponent, for signed
\* and for unsigned B.
C2_AddSub ==
  LET m == MinOf(lhs.e_exp, rhs.e_exp)
  IN  (/\ op \in {"add", "sub"} /\ pc # "idle"
       /\ AlignFits(lhs, rhs)
       /\ InBase(ExactSum(lhs, rhs, m))) =>
        /\ pc = "done"
        /\ result.e_exp = m
        /\ result.base = ExactSum(lhs, rhs, m)

\* (-2,2) - (1,1) = (-21,1)
C2_Witness ==
  /\ op = "sub" /\ pc = "done" /\ signedB
  /\ lhs = wrap_with_exponent(-2, 2) /\ rhs = wrap_with_exponent(1, 1)
  /\ result = wrap_with_exponent(-21, 1)

\* C9: an alignment in which 10^difference or the scaled base does not fit
\* B fails with a panic; it returns no value.
C9_AlignOverflowFails ==
  (/\ op \in {"match_exponents", "add", "sub"} /\ pc # "idle"
   /\ ~AlignFits(lhs, rhs)) => pc = "panic"


\* the scale-up loop of lhs / rhs stops at k: rhs.base divides
\* lhs.base * 10^k, or lhs.base * 10^k has reached floor(MAX_BASE / 10)
DivStops(b, c, k) ==
  \/ (b * Pow10(k)) % c = 0
  \/ b * Pow10(k) >= MAX_BASE \div 10
\* the least k >= from at which it stops
RECURSIVE LeastStop(_, _, _)
LeastStop(b, c, from) ==
  IF DivStops(b, c, from) THEN from ELSE LeastStop(b, c, from + 1)

\* C3: for lhs = (b,e), rhs = (c,f) with b >= 0 and c > 0, lhs / rhs returns
\* ((b*10^k) div c, e - k - f) for the least k >= 0 at which c divides
\* b*10^k or b*10^k >= floor(MAX_BASE/10); where c divides b*10^k the
\* quotient is exact.  Until then the loop holds b*10^j at exponent e - j
\* for some j <= k, and nothing panics.
C3_Div ==
  (op = "div" /\ lhs.base >= 0 /\ rhs.base > 0) =>
    LET b == lhs.base
        c == rhs.base
        k == LeastStop(b, c, 0)
        j == lhs.e_exp - self.e_exp
    IN  /\ pc # "panic"
        /\ 0 <= j /\ j <= k
        /\ self.base = b * Pow10(j)
        /\ pc = "done" =>
             /\ j = k
             /\ result = wrap_with_exponent((b * Pow10(k)) \div c,
                                            lhs.e_exp - k - rhs.e_exp)
             /\ (b * Pow10(k)) % c = 0 => result.base * c = b * Pow10(k)

\* (1,0) / (2,0) = (5,-1)
C3_Witness ==
  /\ op = "div" /\ pc = "done"
  /\ lhs = wrap_with_exponent(1, 0) /\ rhs = wrap_with_exponent(2, 0)
  /\ result = wrap_with_exponent(5, -1)

\* C10: every multiplication the scale-up loop of a division does (the
\* divisor's base is not zero there) yields the exact product
\* self.base * 10, within the range of B, also for negative bases.
C10_ScaleUpInRange ==
  [][div_step => (/\ rhs.base # 0
                  /\ InBase(self.base * 10)
                  /\ self'.base = self.base * 10)]_vars

\* the exact power b^k
RECURSIVE Power(_, _)
Power(b, k) == IF k = 0 THEN 1 ELSE b * Power(b, k - 1)
\* b^1 .. b^k all lie within B
RECURSIVE PowFits(_, _)
PowFits(b, k) ==
  IF k <= 1 THEN InBase(b)
  ELSE PowFits(b, k - 1) /\ InBase(Power(b, k - 1) * b)

\* C7: for n >= 1 with no overflow, pow(n) returns (b^n, e*n) after exactly
\* n - 1 multiplications by b (the range has yielded 1 .. n-1 and is at n);
\* pow(1) returns the value unchanged.
C7_Pow ==
  (op = "pow" /\ n >= 1 /\ PowFits(lhs.base, n)) =>
    /\ pc # "panic"
    /\ pc = "loop" => (1 <= i /\ i <= n /\ newbase = Power(lhs.base, i))
    /\ pc = "done" =>
         /\ i - 1 = n - 1
         /\ result = wrap_with_exponent(Power(lhs.base, n), lhs.e_exp * n)
         /\ n = 1 => result = lhs

\* (3,2).pow(4) = (81,8)
C7_Witness ==
  /\ op = "pow" /\ pc = "done" /\ n = 4
  /\ lhs = wrap_with_exponent(3, 2)
  /\ result = wrap_with_exponent(81, 8)


\* what reduce has to keep and to reach, for a receiver with a non-zero base
C4_Canonical ==
  (op = "reduce" /\ lhs.base # 0) =>
    /\ pc # "panic"
    /\ pc = "loop" =>
         /\ new_exp >= lhs.e_exp
         /\ new_base * Pow10(new_exp - lhs.e_exp) = lhs.base
    /\ pc = "done" =>
         /\ RemT(result.base, 10) # 0
         /\ result.e_exp >= lhs.e_exp
         /\ result.base * Pow10(result.e_exp - lhs.e_exp) = lhs.base
         /\ RemT(lhs.base, 10) # 0 => result = lhs

\* C4: for a value (b,e) with b # 0, reduce returns (b',e') with
\* b' mod 10 # 0, e' >= e and b' * 10^(e'-e) = b; a base with no trailing
\* factor of ten is returned unchanged; the loop keeps
\* new_base * 10^(new_exp - e) = b and the call returns; no step of reduce
\* changes the receiver.
C4_Reduce ==
  /\ []C4_Canonical
  /\ (op = "reduce" /\ pc = "idle" /\ lhs.base # 0) ~> (pc = "done")
  /\ [][(reduce_enter \/ reduce_step \/ reduce_return) => lhs' = lhs]_vars

\* (200,2).reduce() = (2,4)
C4_Witness ==
  /\ op = "reduce" /\ pc = "done" /\ pass = 1
  /\ lhs = wrap_with_exponent(200, 2)
  /\ result = wrap_with_exponent(2, 4)

\* C5: for every value x, x.reduce().reduce() returns, and returns what
\* x.reduce() returned.
C5_ReduceIdempotent ==
  <>(op = "reduce" /\ pass = 2 /\ pc = "done" /\ result = first)

\* C6: reduce of a value with base 0 returns, and returns the value as it
\* is.
C6_ZeroReduceReturns ==
  (op = "reduce" /\ pass = 1 /\ pc = "idle" /\ lhs.base = 0)
    ~> (pc = "done" /\ result = lhs)

\* the lexicographic order of (exponent, base)
Lex(a, b) ==
  IF a.e_exp < b.e_exp THEN "Less"
  ELSE IF a.e_exp > b.e_exp THEN "Greater"
  ELSE IF a.base < b.base THEN "Less"
  ELSE IF a.base > b.base THEN "Greater"
  ELSE "Equal"
Flip(o) == IF o = "Less" THEN "Greater" ELSE IF o = "Greater" THEN "Less" ELSE o

\* C8: a == b iff base and exponent are equal; cmp is the lexicographic
\* order of (exponent, base), Equal exactly when a == b, antisymmetric and
\* transitive; partial_cmp is Some(cmp); with equal exponents the order is
\* that of the magnitudes.
C8_EqOrd ==
  (op = "cmp" /\ pc = "done") =>
    /\ result.eq <=> (lhs.base = rhs.base /\ lhs.e_exp = rhs.e_exp)
    /\ result.cmp = Lex(lhs, rhs)
    /\ (result.cmp = "Equal") <=> result.eq
    /\ result.partial_cmp = Some(result.cmp)
    /\ cmp(rhs, lhs) = Flip(result.cmp)
    /\ \A c \in Values(BinBases) :
         (result.cmp # "Greater" /\ cmp(rhs, c) # "Greater")
           => cmp(lhs, c) # "Greater"
    /\ lhs.e_exp = rhs.e_exp =>
         result.cmp = int_cmp(Units(lhs, -MaxExp), Units(rhs, -MaxExp))

\* the exponents decide against the bases
C8_Witness ==
  /\ op = "cmp" /\ pc = "done"
  /\ lhs.e_exp < rhs.e_exp /\ lhs.base > rhs.base
  /\ result.cmp = "Less" /\ ~result.eq
  /\ result.partial_cmp = Some("Less")

====
